---- MODULE Spec2Model ----
(***************************************************************************)
(* A model of the helper functions of the repository:                      *)
(*   list_utilities.traverse            (generator, run frame by frame)    *)
(*   general_utilities.increment_counter_attribute                         *)
(*   general_utilities.get_quantised_width_height                          *)
(*   root_utilities.get_canvas_with_hists (naming and pad grid)            *)
(*   root_utilities.make_hist, rebin_nbins, rebin_bin_width                *)
(*   password_gen.get_char_set, gen_password                               *)
(* Python strings are sequences of one-character strings, so that          *)
(* concatenation, str() and iteration are computed, not assumed.           *)
(***************************************************************************)
EXTENDS Integers, Sequences, FiniteSets, TLC

VARIABLES
    obj, pmode, stack, out,            \* traverse: argument, flag, generator frames, items yielded
    attrs, calls,                      \* an object's attributes; the calls made per attribute name
    names, canvas,                     \* canvas names created so far; the canvas last returned
    area, grid,                        \* get_quantised_width_height: argument, result
    hargs, hpc, hd, hlist, hres, built, \* make_hist: arguments, position, loop index d, args list, result, TH*D constructed
    rebinned,                          \* rebin_nbins: its argument and outcome
    char_set, length, chosen, password \* gen_password: arguments, characters chosen so far, string returned

travVars  == <<obj, pmode, stack, out>>
cntVars   == <<attrs, calls>>
canVars   == <<names, canvas>>
gridVars  == <<area, grid>>
histVars  == <<hargs, hpc, hd, hlist, hres, built, rebinned>>
pwVars    == <<char_set, length, chosen, password>>
vars      == <<travVars, cntVars, canVars, gridVars, histVars, pwVars>>

\* A value that stands for "not there" (None, no call made, no result yet).
None == [kind |-> "none"]

(***************************************************************************)
(* Python values                                                           *)
(***************************************************************************)
IntVal(n)     == [kind |-> "int", val |-> n]
StrVal(cs)    == [kind |-> "str", chars |-> cs]
ListVal(es)   == [kind |-> "list", elems |-> es]
DictVal(ps)   == [kind |-> "dict", pairs |-> ps]   \* <<key, value>> pairs in iteration order

Digit(d) == CASE d = 0 -> "0" [] d = 1 -> "1" [] d = 2 -> "2" [] d = 3 -> "3" [] d = 4 -> "4"
              [] d = 5 -> "5" [] d = 6 -> "6" [] d = 7 -> "7" [] d = 8 -> "8" [] d = 9 -> "9"

RECURSIVE NatStr(_)
NatStr(n) == IF n < 10 THEN <<Digit(n)>> ELSE NatStr(n \div 10) \o <<Digit(n % 10)>>

\* str() of an int or of a string
IntStr(n) == IF n < 0 THEN <<"-">> \o NatStr(-n) ELSE NatStr(n)
Str(v) == IF v.kind = "int" THEN IntStr(v.val) ELSE v.chars

(***************************************************************************)
(* list_utilities.traverse                                                 *)
(***************************************************************************)
\* The most nodes (containers and leaves) of an object handed to traverse.
MaxNodes == 4

Leaves  == {IntVal(1), StrVal(<<"a", "b">>)}
KeySet  == {StrVal(<<"k">>), IntVal(2)}

RECURSIVE ObjsOfSize(_), ElemsOfSize(_), PairsOfSize(_, _)
\* lists of objects with m nodes in all
ElemsOfSize(m) ==
    IF m = 0 THEN {<<>>}
    ELSE UNION {{<<o>> \o es : o \in ObjsOfSize(k), es \in ElemsOfSize(m - k)} : k \in 1..m}
\* <<key, value>> lists with distinct keys of ks, the values with m nodes in all
PairsOfSize(m, ks) ==
    IF m = 0 THEN {<<>>}
    ELSE UNION {UNION {{<<<<key, o>>>> \o ps : o \in ObjsOfSize(k),
                                                 ps \in PairsOfSize(m - k, ks \ {key})}
                       : key \in ks} : k \in 1..m}
ObjsOfSize(n) ==
    IF n = 1 THEN Leaves \cup {ListVal(<<>>), DictVal(<<>>)}
    ELSE {ListVal(es) : es \in ElemsOfSize(n - 1) \ {<<>>}}
         \cup {DictVal(ps) : ps \in PairsOfSize(n - 1, KeySet) \ {<<>>}}

Objs == UNION {ObjsOfSize(n) : n \in 1..MaxNodes}

HasKeys(o) == o.kind = "dict"                 \* hasattr(obj, 'keys')
HasIter(o) == o.kind \in {"dict", "list"}     \* hasattr(obj, '__iter__'): a Python 2 str has none

\* the branches tested the other way round
BranchIterFirst(o) == IF HasIter(o) THEN "iter" ELSE IF HasKeys(o) THEN "keys" ELSE "leaf"
\* the if / elif / else of traverse
Branch(o) == IF HasKeys(o) THEN "keys" ELSE IF HasIter(o) THEN "iter" ELSE "leaf"

\* the values of "for val in obj": a dict's keys, a list's or tuple's elements
Iter(o)  == IF o.kind = "dict" THEN [i \in 1..Len(o.pairs) |-> o.pairs[i][1]] ELSE o.elems
\* obj[val]
GetItem(o, val) == (CHOOSE i \in 1..Len(o.pairs) : o.pairs[i][1] = val)
GetValue(o, val) == o.pairs[GetItem(o, val)][2]

\* level -= 1 left out
LevelUpForgotten(level) == level
LevelDown(level) == level + 1                 \* level += 1
LevelUp(level)   == level - 1                 \* level -= 1

KeyItem(val, pm, level)  == IF pm THEN <<StrVal(<<"{">> \o Str(val)), level>> ELSE val
CloseItem(level)         == <<StrVal(<<"}">>), level>>
LeafItem(o, pm, level)   == IF pm THEN <<o, level>> ELSE o

\* A generator frame: its obj, its level, the position of its for loop, and
\* whether it is inside the inner loop over a sub-generator.
Frame(o, level) == [node |-> o, level |-> level, pos |-> 1, sub |-> FALSE]
Top         == stack[Len(stack)]
Popped      == SubSeq(stack, 1, Len(stack) - 1)
WithTop(f)  == [stack EXCEPT ![Len(stack)] = f]

\* traverse touches nothing but its own frames and what it yields
TravOnly == UNCHANGED <<cntVars, canVars, gridVars, histVars, pwVars>>

\* traverse(obj, pmode) has been called: level is 0, nothing has run yet
TravInit ==
    /\ obj \in Objs
    /\ pmode \in BOOLEAN
    /\ stack = <<Frame(obj, 0)>>
    /\ out = <<>>
    /\ attrs = <<>> /\ calls = <<>>
    /\ names = {} /\ canvas = None
    /\ area = 0 /\ grid = None
    /\ hargs = None /\ hpc = "idle" /\ hd = 0 /\ hlist = <<>> /\ hres = None /\ built = FALSE /\ rebinned = None
    /\ char_set = <<>> /\ length = 0 /\ chosen = <<>> /\ password = None

\* dict branch: yield the key, level += 1, start traverse(obj[val], pmode, level)
TraverseKey ==
    /\ stack # <<>>
    /\ Branch(Top.node) = "keys" /\ ~Top.sub /\ Top.pos <= Len(Iter(Top.node))
    /\ LET val   == Iter(Top.node)[Top.pos]
           level == LevelDown(Top.level)
       IN /\ out' = Append(out, KeyItem(val, pmode, Top.level))
          /\ stack' = Append(WithTop([Top EXCEPT !.level = level, !.sub = TRUE]),
                             Frame(GetValue(Top.node, val), level))
    /\ UNCHANGED <<obj, pmode>> /\ TravOnly

\* dict branch, sub-generator exhausted: level -= 1, yield ('}', level) if pmode
TraverseKeyClose ==
    /\ stack # <<>>
    /\ Branch(Top.node) = "keys" /\ Top.sub
    /\ LET level == LevelUp(Top.level)
       IN /\ out' = IF pmode THEN Append(out, CloseItem(level)) ELSE out
          /\ stack' = WithTop([Top EXCEPT !.level = level, !.sub = FALSE, !.pos = @ + 1])
    /\ UNCHANGED <<obj, pmode>> /\ TravOnly

\* sequence branch: level += 1, start traverse(val, pmode, level)
TraverseElem ==
    /\ stack # <<>>
    /\ Branch(Top.node) = "iter" /\ ~Top.sub /\ Top.pos <= Len(Iter(Top.node))
    /\ LET val   == Iter(Top.node)[Top.pos]
           level == LevelDown(Top.level)
       IN stack' = Append(WithTop([Top EXCEPT !.level = level, !.sub = TRUE]),
                          Frame(val, level))
    /\ UNCHANGED <<obj, pmode, out>> /\ TravOnly

\* sequence branch, sub-generator exhausted: level -= 1
TraverseElemBack ==
    /\ stack # <<>>
    /\ Branch(Top.node) = "iter" /\ Top.sub
    /\ stack' = WithTop([Top EXCEPT !.level = LevelUp(@), !.sub = FALSE, !.pos = @ + 1])
    /\ UNCHANGED <<obj, pmode, out>> /\ TravOnly

\* else branch: yield obj, and the generator is exhausted
TraverseLeaf ==
    /\ stack # <<>>
    /\ Branch(Top.node) = "leaf"
    /\ out' = Append(out, LeafItem(Top.node, pmode, Top.level))
    /\ stack' = Popped
    /\ UNCHANGED <<obj, pmode>> /\ TravOnly

\* the for loop of a dict or sequence is over: the generator is exhausted
TraverseReturn ==
    /\ stack # <<>>
    /\ Branch(Top.node) # "leaf" /\ ~Top.sub /\ Top.pos > Len(Iter(Top.node))
    /\ stack' = Popped
    /\ UNCHANGED <<obj, pmode, out>> /\ TravOnly

TravNext ==
    \/ TraverseKey
    \/ TraverseKeyClose
    \/ TraverseElem
    \/ TraverseElemBack
    \/ TraverseLeaf
    \/ TraverseReturn

SpecTraverse == TravInit /\ [][TravNext]_vars

TraverseDone == obj # None /\ stack = <<>>

(***************************************************************************)
(* general_utilities.increment_counter_attribute                           *)
(***************************************************************************)
\* The most calls of increment_counter_attribute on the object.
MaxCalls == 4

AttrNames == {"counter", "canvas_id", "other"}
InitVals  == {0, 3}

HasAttr(o, name) == name \in DOMAIN o                     \* hasattr(obj, attribute_name)
SetAttr(o, name, v) ==                                    \* setattr(obj, attribute_name, v)
    [x \in DOMAIN o \cup {name} |-> IF x = name THEN v ELSE o[x]]

\* the hasattr test left out: the attribute is set to init_val on every call
IncrementAlwaysInit(o, attribute_name, init_val) == SetAttr(o, attribute_name, init_val)
\* the attributes of obj after increment_counter_attribute(obj, attribute_name, init_val)
IncrementCounterAttribute(o, attribute_name, init_val) ==
    SetAttr(o, attribute_name,
            IF HasAttr(o, attribute_name) THEN o[attribute_name] + 1 ELSE init_val)

\* the init_val of every call made so far with this attribute name
CallsOf(name)    == IF name \in DOMAIN calls THEN calls[name] ELSE <<>>
Recorded(name, init_val) ==
    [x \in DOMAIN calls \cup {name} |->
        IF x = name THEN Append(CallsOf(name), init_val) ELSE calls[x]]
RECURSIVE TotalCalls(_)
TotalCalls(ns) ==
    IF ns = {} THEN 0
    ELSE LET n == CHOOSE x \in ns : TRUE IN Len(CallsOf(n)) + TotalCalls(ns \ {n})

\* an object that has one attribute, "other", and none of the counters
CntInit ==
    /\ attrs = [x \in {"other"} |-> 7]
    /\ calls = <<>>
    /\ obj = None /\ pmode = FALSE /\ stack = <<>> /\ out = <<>>
    /\ names = {} /\ canvas = None
    /\ area = 0 /\ grid = None
    /\ hargs = None /\ hpc = "idle" /\ hd = 0 /\ hlist = <<>> /\ hres = None /\ built = FALSE /\ rebinned = None
    /\ char_set = <<>> /\ length = 0 /\ chosen = <<>> /\ password = None

Increment ==
    \E attribute_name \in AttrNames, init_val \in InitVals :
        /\ TotalCalls(AttrNames) < MaxCalls
        /\ attrs' = IncrementCounterAttribute(attrs, attribute_name, init_val)
        /\ calls' = Recorded(attribute_name, init_val)
        /\ UNCHANGED <<travVars, canVars, gridVars, histVars, pwVars>>

\* test_increment_counter_attribute's t(): the call with the default arguments
IncrementDefault ==
    /\ TotalCalls(AttrNames) < MaxCalls
    /\ attrs' = IncrementCounterAttribute(attrs, "counter", 0)
    /\ calls' = Recorded("counter", 0)
    /\ UNCHANGED <<travVars, canVars, gridVars, histVars, pwVars>>

CntNext == Increment \/ IncrementDefault

SpecCounter == CntInit /\ [][CntNext]_vars

(***************************************************************************)
(* general_utilities.get_quantised_width_height                            *)
(***************************************************************************)
\* The largest area asked for.
MaxArea == 1500

\* floor(sqrt(a) + c/100) for 0 <= c < 100: the largest n with n - c/100 <= sqrt(a).
\* (100n - c)^2 = 10000a has no solution for c = 49 or 99, the squares ending
\* in 01, so no sum is so near an integer that its rounding as a double matters.
FloorSqrtPlus(a, c) ==
    CHOOSE n \in 0..(a + 1) :
        /\ (n = 0 \/ (100 * n - c) * (100 * n - c) <= 10000 * a)
        /\ (100 * (n + 1) - c) * (100 * (n + 1) - c) > 10000 * a

\* round(x) of Python 2 is floor(x + 0.5) for x >= 0
GetQuantisedWidthHeight(a) ==
    LET y == FloorSqrtPlus(a, 49)          \* floor(sqrt(area) + 0.49)
        x == FloorSqrtPlus(a, 99)          \* round(sqrt(area) + 0.49)
    IN <<x, y>>

GridInit ==
    /\ area \in 1..MaxArea
    /\ grid = None
    /\ obj = None /\ pmode = FALSE /\ stack = <<>> /\ out = <<>>
    /\ attrs = <<>> /\ calls = <<>>
    /\ names = {} /\ canvas = None
    /\ hargs = None /\ hpc = "idle" /\ hd = 0 /\ hlist = <<>> /\ hres = None /\ built = FALSE /\ rebinned = None
    /\ char_set = <<>> /\ length = 0 /\ chosen = <<>> /\ password = None

QuantiseCall ==
    /\ grid = None
    /\ grid' = GetQuantisedWidthHeight(area)
    /\ UNCHANGED <<area, travVars, cntVars, canVars, histVars, pwVars>>

GridNext == QuantiseCall

SpecGrid == GridInit /\ [][GridNext]_vars

(***************************************************************************)
(* root_utilities.get_canvas_with_hists: the canvas name and its pads      *)
(***************************************************************************)
\* The most calls of get_canvas_with_hists in the process.
MaxCanvases == 12
\* The most histograms handed to one call.
MaxHists == 2

Prefixes == {<<"c">>, <<"c", "1">>}

CanInit ==
    /\ attrs = <<>> /\ calls = <<>>
    /\ names = {} /\ canvas = None
    /\ obj = None /\ pmode = FALSE /\ stack = <<>> /\ out = <<>>
    /\ area = 0 /\ grid = None
    /\ hargs = None /\ hpc = "idle" /\ hd = 0 /\ hlist = <<>> /\ hres = None /\ built = FALSE /\ rebinned = None
    /\ char_set = <<>> /\ length = 0 /\ chosen = <<>> /\ password = None

\* make_canvas(name, n_x, n_y, resize=True)
MakeCanvas(name, n_x, n_y) == [name |-> name, n_x |-> n_x, n_y |-> n_y]

GetCanvasWithHists ==
    \E canvas_name \in Prefixes, n \in 1..MaxHists :
        /\ Len(CallsOf("canvas_id")) < MaxCanvases
        /\ attrs' = IncrementCounterAttribute(attrs, "canvas_id", 0)
        /\ calls' = Recorded("canvas_id", 0)
        /\ LET name == canvas_name \o IntStr(attrs'["canvas_id"])
               xy   == GetQuantisedWidthHeight(n)
           IN /\ canvas' = MakeCanvas(name, xy[1], xy[2])
              /\ names' = names \cup {name}
        /\ UNCHANGED <<travVars, gridVars, histVars, pwVars>>

CanNext == GetCanvasWithHists

SpecCanvas == CanInit /\ [][CanNext]_vars

(***************************************************************************)
(* root_utilities.make_hist                                                *)
(***************************************************************************)
\* Axis limits run from -1 to MaxCoord.
MaxCoord == 1

Coords  == (-1)..MaxCoord
Scalar(n)   == [seq |-> FALSE, v |-> n]
PerAxis(t)  == [seq |-> TRUE, at |-> t]      \* an indexable object, indexes 0, 1, 2
HasLen(a)   == a # None /\ a.seq              \* hasattr(a, '__len__')
Limits  == {Scalar(n) : n \in Coords} \cup {PerAxis(t) : t \in [1..3 -> Coords]}
BinArgs == {None, Scalar(0), Scalar(5), PerAxis(<<10, 5, 20>>)}
Dims    == {0, 1, 2, 3, 4, 42}               \* int(dim)

Raise(exc) == [kind |-> "raise", exc |-> exc]
Hist(dim, axes) == [kind |-> "hist", dim |-> dim, axes |-> axes]   \* TH1D / TH2D / TH3D (*args)

DimOk(dim) == dim \in {1, 2, 3}
\* d counts from 0 as in the code
TMin(a, d) == IF HasLen(a.mins) THEN a.mins.at[d + 1] ELSE a.mins.v
TMax(a, d) == IF HasLen(a.maxs) THEN a.maxs.at[d + 1] ELSE a.maxs.v
\* "elif bins:" is false for None and for 0
Truthy(b) == b # None /\ b.v # 0
\* int(t_max - t_min) if int(t_max - t_min) > 1 else 1
DefaultBins(t_min, t_max) == IF t_max - t_min > 1 THEN t_max - t_min ELSE 1
TBin(a, d) ==
    IF HasLen(a.bins) THEN a.bins.at[d + 1]
    ELSE IF Truthy(a.bins) THEN a.bins.v
    ELSE DefaultBins(TMin(a, d), TMax(a, d))
\* the test written >= for >
MinNotBelowMax(t_min, t_max) == t_min >= t_max
MinAboveMax(t_min, t_max) == t_min > t_max

HistInit ==
    /\ hargs \in [mins : Limits, maxs : Limits, bins : BinArgs, dim : Dims]
    /\ hpc = "dim" /\ hd = 0 /\ hlist = <<>> /\ hres = None /\ built = FALSE
    /\ rebinned = None
    /\ obj = None /\ pmode = FALSE /\ stack = <<>> /\ out = <<>>
    /\ attrs = <<>> /\ calls = <<>>
    /\ names = {} /\ canvas = None
    /\ area = 0 /\ grid = None
    /\ char_set = <<>> /\ length = 0 /\ chosen = <<>> /\ password = None

HistOnly == UNCHANGED <<travVars, cntVars, canVars, gridVars, pwVars, rebinned>>

\* if dim not in (1,2,3): raise ROOTException
MakeHistCheckDim ==
    /\ hpc = "dim"
    /\ IF DimOk(hargs.dim)
       THEN hpc' = "axes" /\ hres' = hres
       ELSE hpc' = "done" /\ hres' = Raise("ROOTException")
    /\ UNCHANGED <<hargs, hd, hlist, built>> /\ HistOnly

\* one turn of "for d in range(dim)"
MakeHistAxis ==
    /\ hpc = "axes" /\ hd < hargs.dim
    /\ LET t_min == TMin(hargs, hd)
           t_max == TMax(hargs, hd)
           t_bin == TBin(hargs, hd)
       IN IF MinAboveMax(t_min, t_max)
          THEN hpc' = "done" /\ hres' = Raise("ROOTException") /\ UNCHANGED <<hd, hlist>>
          ELSE /\ hlist' = Append(hlist, [bins |-> t_bin, min |-> t_min, max |-> t_max])
               /\ hd' = hd + 1
               /\ UNCHANGED <<hpc, hres>>
    /\ UNCHANGED <<hargs, built>> /\ HistOnly

\* res = TH1D(*args) / TH2D(*args) / TH3D(*args); return res
MakeHistConstruct ==
    /\ hpc = "axes" /\ hd = hargs.dim
    /\ built' = TRUE
    /\ hres' = Hist(hargs.dim, hlist)
    /\ hpc' = "done"
    /\ UNCHANGED <<hargs, hd, hlist>> /\ HistOnly

HistNext == MakeHistCheckDim \/ MakeHistAxis \/ MakeHistConstruct

SpecHist == HistInit /\ [][HistNext]_vars

(***************************************************************************)
(* root_utilities.rebin_nbins, rebin_bin_width                             *)
(***************************************************************************)
\* The most bins of the histogram handed to rebin_nbins, and the largest n_bins.
MaxBins == 10
\* The widest bin of that histogram.
MaxBinWidth == 2

ZeroDivision == Raise("ZeroDivisionError")
NullHist     == [kind |-> "null"]

\* TH1::Rebin(ngroup, ''): each ngroup adjacent bins become one, in place;
\* bins left over at the top go to overflow and x max is lowered; an ngroup
\* that is not in 1..nbins is refused with a null pointer.
Rebin(h, ngroup) ==
    LET ax == h.axes[1]
        nb == ax.bins \div ngroup
    IN IF ngroup <= 0 \/ ngroup > ax.bins THEN NullHist
       ELSE [h EXCEPT !.axes[1] =
                [bins |-> nb, min |-> ax.min,
                 max  |-> ax.min + nb * ngroup * ((ax.max - ax.min) \div ax.bins)]]

RebinBinWidth(h, bin_width) == IF bin_width = 0 THEN h ELSE Rebin(h, bin_width)

\* int(float(xmax - xmin)/n_bins), xmax >= xmin and n_bins > 0
NewBinWidth(xmin, xmax, n_bins) == (xmax - xmin) \div n_bins

RebinNbinsOf(h, n_bins) ==
    IF n_bins = 0 THEN h
    ELSE LET new_bin_width == NewBinWidth(h.axes[1].min, h.axes[1].max, n_bins)
         IN IF new_bin_width = 0 THEN ZeroDivision       \* hist.GetNbinsX() % 0
            ELSE RebinBinWidth(h, new_bin_width)

\* a one-dimensional histogram as make_hist returns it
RebinInit ==
    /\ \E nb \in 1..MaxBins, w \in 1..MaxBinWidth :
          /\ hlist = <<[bins |-> nb, min |-> 0, max |-> nb * w]>>
          /\ hres = Hist(1, hlist)
    /\ hargs = None /\ hpc = "done" /\ hd = 1 /\ built = TRUE
    /\ rebinned = None
    /\ obj = None /\ pmode = FALSE /\ stack = <<>> /\ out = <<>>
    /\ attrs = <<>> /\ calls = <<>>
    /\ names = {} /\ canvas = None
    /\ area = 0 /\ grid = None
    /\ char_set = <<>> /\ length = 0 /\ chosen = <<>> /\ password = None

RebinNbins ==
    \E n_bins \in 0..MaxBins :
        /\ rebinned = None /\ hres # None /\ hres.kind = "hist"
        /\ LET res == RebinNbinsOf(hres, n_bins)
           IN /\ rebinned' = [n_bins |-> n_bins, res |-> res]
              /\ hres' = IF res.kind = "hist" THEN res ELSE hres
        /\ UNCHANGED <<hargs, hpc, hd, hlist, built>>
        /\ UNCHANGED <<travVars, cntVars, canVars, gridVars, pwVars>>

RebinNext == RebinNbins

SpecRebin == RebinInit /\ [][RebinNext]_vars

(***************************************************************************)
(* password_gen.get_char_set, gen_password                                 *)
(***************************************************************************)
\* The longest password asked for.
MaxLength == 2

\* the string module of Python 2 (C locale); "VT" stands for '\x0b' and
\* "BACKTICK" for the grave accent
Lowercase   == <<"a", "b", "c", "d", "e", "f", "g", "h", "i", "j", "k", "l", "m",
                 "n", "o", "p", "q", "r", "s", "t", "u", "v", "w", "x", "y", "z">>
Uppercase   == <<"A", "B", "C", "D", "E", "F", "G", "H", "I", "J", "K", "L", "M",
                 "N", "O", "P", "Q", "R", "S", "T", "U", "V", "W", "X", "Y", "Z">>
Letters     == Lowercase \o Uppercase
Digits      == <<"0", "1", "2", "3", "4", "5", "6", "7", "8", "9">>
Punctuation == <<"!", "\"", "#", "$", "%", "&", "'", "(", ")", "*", "+", ",", "-",
                 ".", "/", ":", ";", "<", "=", ">", "?", "@", "[", "\\", "]", "^",
                 "_", "BACKTICK", "{", "|", "}", "~">>
Whitespace  == <<"\t", "\n", "VT", "\f", "\r", " ">>
Printable   == Digits \o Letters \o Punctuation \o Whitespace
Ambiguous   == <<"1", "l", "I", "0", "O", "o">>

Range(f) == {f[i] : i \in DOMAIN f}

\* del char_set[0] in place of char_set.remove(c)
ListRemoveHead(cs, c) == Tail(cs)
\* list.remove(c): the first c goes (ValueError if there is none: not the case here)
ListRemove(cs, c) ==
    LET i == CHOOSE k \in 1..Len(cs) : cs[k] = c /\ \A j \in 1..(k - 1) : cs[j] # c
    IN SubSeq(cs, 1, i - 1) \o SubSeq(cs, i + 1, Len(cs))

RECURSIVE RemoveEach(_, _)
\* for c in to_remove: char_set.remove(c)
RemoveEach(cs, to_remove) ==
    IF to_remove = <<>> THEN cs
    ELSE RemoveEach(ListRemove(cs, Head(to_remove)), Tail(to_remove))

GetCharSet(all_char) ==
    LET cs        == IF all_char THEN Printable ELSE Letters \o Digits
        to_remove == IF all_char THEN Whitespace ELSE Ambiguous
    IN RemoveEach(cs, to_remove)

\* get_char_set(all_char=False), get_char_set(all_char=True)
ReadableCharSet == GetCharSet(FALSE)
FullCharSet     == GetCharSet(TRUE)

\* random.choice(char_set): any element
Choices(cs) == Range(cs)

PwInit ==
    /\ char_set \in {ReadableCharSet, FullCharSet, <<"A">>}
    /\ length \in 0..MaxLength
    /\ chosen = <<>> /\ password = None
    /\ obj = None /\ pmode = FALSE /\ stack = <<>> /\ out = <<>>
    /\ attrs = <<>> /\ calls = <<>>
    /\ names = {} /\ canvas = None
    /\ area = 0 /\ grid = None
    /\ hargs = None /\ hpc = "idle" /\ hd = 0 /\ hlist = <<>> /\ hres = None /\ built = FALSE /\ rebinned = None

\* one x of "for x in range(length)"
GenChoice ==
    /\ password = None /\ Len(chosen) < length
    /\ \E c \in Choices(char_set) : chosen' = Append(chosen, c)
    /\ UNCHANGED <<char_set, length, password>>
    /\ UNCHANGED <<travVars, cntVars, canVars, gridVars, histVars>>

\* range(length) is used up: "".join returns
GenJoin ==
    /\ password = None /\ Len(chosen) >= length
    /\ password' = StrVal(chosen)
    /\ UNCHANGED <<char_set, length, chosen>>
    /\ UNCHANGED <<travVars, cntVars, canVars, gridVars, histVars>>

PwNext == GenChoice \/ GenJoin

SpecPassword == PwInit /\ [][PwNext]_vars

(***************************************************************************)
(* What traverse is to yield                                               *)
(***************************************************************************)
RECURSIVE PreOrder(_), PreOrderElems(_), PreOrderPairs(_)
PreOrderElems(es) == IF es = <<>> THEN <<>> ELSE PreOrder(Head(es)) \o PreOrderElems(Tail(es))
PreOrderPairs(ps) ==
    IF ps = <<>> THEN <<>>
    ELSE <<Head(ps)[1]>> \o PreOrder(Head(ps)[2]) \o PreOrderPairs(Tail(ps))
PreOrder(o) ==
    CASE o.kind = "dict" -> PreOrderPairs(o.pairs)
      [] o.kind = "list" -> PreOrderElems(o.elems)
      [] OTHER           -> <<o>>

RECURSIVE NumKeys(_), NumLeaves(_)
SumOver(f) == LET S[i \in 0..Len(f)] == IF i = 0 THEN 0 ELSE S[i - 1] + f[i] IN S[Len(f)]
NumKeys(o) ==
    CASE o.kind = "dict" -> Len(o.pairs) + SumOver([i \in 1..Len(o.pairs) |-> NumKeys(o.pairs[i][2])])
      [] o.kind = "list" -> SumOver([i \in 1..Len(o.elems) |-> NumKeys(o.elems[i])])
      [] OTHER           -> 0
NumLeaves(o) ==
    CASE o.kind = "dict" -> SumOver([i \in 1..Len(o.pairs) |-> NumLeaves(o.pairs[i][2])])
      [] o.kind = "list" -> SumOver([i \in 1..Len(o.elems) |-> NumLeaves(o.elems[i])])
      [] OTHER           -> 1

IsPrefix(s, t) == Len(s) <= Len(t) /\ SubSeq(t, 1, Len(s)) = s

\* C2: with pmode False, traverse yields the pre-order flattening of obj: a key
\* right before the items of its value, elements in order, a string or other
\* leaf once and whole; so each key and each leaf occurrence exactly once, and
\* nothing for an empty container.
C2_TraversePreOrder ==
    (obj # None /\ ~pmode) =>
        /\ IsPrefix(out, PreOrder(obj))
        /\ stack = <<>> => /\ out = PreOrder(obj)
                           /\ Len(out) = NumKeys(obj) + NumLeaves(obj)
                           /\ \A i \in 1..Len(out) : out[i].kind \in {"int", "str"}

\* a finished walk of a dict that holds a string, a nested container and an empty one
C2_Witness ==
    /\ TraverseDone /\ ~pmode
    /\ obj.kind = "dict" /\ Len(obj.pairs) = 2
    /\ \E i \in 1..2 : obj.pairs[i][2] = ListVal(<<StrVal(<<"a", "b">>)>>)
    /\ \E i \in 1..2 : obj.pairs[i][2] \in {ListVal(<<>>), DictVal(<<>>)}
    /\ Len(out) = 3

RECURSIVE Levelled(_, _), LevelledElems(_, _), LevelledPairs(_, _)
\* the items of o, which n containers enclose, each with its number of enclosing containers
LevelledElems(es, n) ==
    IF es = <<>> THEN <<>> ELSE Levelled(Head(es), n) \o LevelledElems(Tail(es), n)
LevelledPairs(ps, n) ==
    IF ps = <<>> THEN <<>>
    ELSE <<<<StrVal(<<"{">> \o Str(Head(ps)[1])), n>>>>
         \o Levelled(Head(ps)[2], n + 1)
         \o <<<<StrVal(<<"}">>), n>>>>
         \o LevelledPairs(Tail(ps), n)
Levelled(o, n) ==
    CASE o.kind = "dict" -> LevelledPairs(o.pairs, n)
      [] o.kind = "list" -> LevelledElems(o.elems, n + 1)
      [] OTHER           -> <<<<o, n>>>>

IsOpen(item)  == item[1].kind = "str" /\ item[1].chars # <<>> /\ Head(item[1].chars) = "{"
IsClose(item) == item[1] = StrVal(<<"}">>)
\* every '{key' has its '}' at the same level, with only deeper items between
Matched(items) ==
    \A i \in 1..Len(items) :
        IsOpen(items[i]) =>
            \E j \in (i + 1)..Len(items) :
                /\ IsClose(items[j]) /\ items[j][2] = items[i][2]
                /\ \A k \in (i + 1)..(j - 1) : items[k][2] > items[i][2]

\* C3: with pmode True, traverse yields (value, level) pairs: a leaf with the
\* number of containers around it, a dict key as ('{'+str(key), L) with L the
\* number of containers around its dict, then after the items of its value a
\* ('}', L); every item in between has a level above L.
C3_TraverseLevels ==
    (obj # None /\ pmode) =>
        /\ IsPrefix(out, Levelled(obj, 0))
        /\ \A i \in 1..Len(out) : out[i][2] >= 0
        /\ stack = <<>> => /\ out = Levelled(obj, 0)
                           /\ Matched(out)

\* a finished walk of a dict in a list in a dict: a leaf at level 3, a key at level 2
C3_Witness ==
    /\ TraverseDone /\ pmode
    /\ \E i \in 1..Len(out) : ~IsOpen(out[i]) /\ ~IsClose(out[i]) /\ out[i][2] = 3
    /\ \E i \in 1..Len(out) : IsOpen(out[i]) /\ out[i][2] = 2
    /\ \E i \in 1..Len(out) : IsClose(out[i]) /\ out[i][2] = 0

(***************************************************************************)
(* Counters, canvases, grids                                               *)
(***************************************************************************)
\* C8: on an object that lacks the attribute, the first call sets it to that
\* call's init_val and every later call adds exactly 1 whatever init_val it
\* passes, so k calls with the default arguments leave k - 1; no other
\* attribute of the object changes.
C8_StaticCounter ==
    /\ DOMAIN calls \subseteq DOMAIN attrs
    /\ \A a \in DOMAIN calls \ {"other"} :
         /\ attrs[a] = calls[a][1] + Len(calls[a]) - 1
         /\ (\A i \in 1..Len(calls[a]) : calls[a][i] = 0) => attrs[a] = Len(calls[a]) - 1
    /\ \A a \in DOMAIN attrs \ DOMAIN calls : a = "other" /\ attrs[a] = 7
    /\ "other" \in DOMAIN attrs /\ attrs["other"] = 7 + Len(CallsOf("other"))

\* two default calls (the repository's test), and a counter whose later call passed another init_val
C8_Witness ==
    \/ /\ CallsOf("counter") = <<0, 0>> /\ attrs["counter"] = 1
       /\ CallsOf("canvas_id") = <<3>> /\ attrs["canvas_id"] = 3
    \/ /\ CallsOf("canvas_id") = <<0, 3, 3>> /\ attrs["canvas_id"] = 2

\* C4: no two calls of get_canvas_with_hists produce the same canvas name,
\* whatever the prefixes: each name is the prefix followed by the decimal
\* value of canvas_id, 0 on the first call and one more on every call.
C4_CanvasNamesUnique ==
    /\ Cardinality(names) = Len(CallsOf("canvas_id"))
    /\ canvas # None =>
         /\ attrs["canvas_id"] = Len(CallsOf("canvas_id")) - 1
         /\ \E canvas_name \in Prefixes : canvas.name = canvas_name \o IntStr(attrs["canvas_id"])

\* The grids 1x1, 2x1, 2x2, 3x2, 3x3, ... in order
GridOf(i) == <<i \div 2 + 1, (i + 1) \div 2>>
FirstGrid(a) ==
    GridOf(CHOOSE i \in 1..(2 * a) :
               /\ GridOf(i)[1] * GridOf(i)[2] >= a
               /\ \A j \in 1..(i - 1) : GridOf(j)[1] * GridOf(j)[2] < a)

\* C5: for every area >= 1 the result is the first grid of 1x1, 2x1, 2x2,
\* 3x2, ... with at least area cells, so that each histogram has a pad.
C5_FirstGridThatFits ==
    grid # None =>
        /\ grid = FirstGrid(area)
        /\ grid[1] * grid[2] >= area
        /\ grid[2] <= grid[1] /\ grid[1] <= grid[2] + 1

(***************************************************************************)
(* Histograms                                                              *)
(***************************************************************************)
AxisMin(d) == IF hargs.mins.seq THEN hargs.mins.at[d] ELSE hargs.mins.v    \* axes counted from 1
AxisMax(d) == IF hargs.maxs.seq THEN hargs.maxs.at[d] ELSE hargs.maxs.v
BadDim     == hargs.dim \notin {1, 2, 3}
BadAxis    == \E d \in 1..hargs.dim : AxisMin(d) > AxisMax(d)
RaisedROOT == hres # None /\ hres.kind = "raise" /\ hres.exc = "ROOTException"

\* C6: make_hist raises ROOTException when int(dim) is not 1, 2 or 3 and when
\* some axis below dim has its minimum above its maximum, both before any
\* ROOT histogram is constructed; otherwise it raises no ROOTException.
C6_MakeHistRaises ==
    /\ built => ~RaisedROOT
    /\ RaisedROOT => (BadDim \/ BadAxis) /\ hpc = "done"
    /\ hpc = "done" => /\ RaisedROOT <=> (BadDim \/ BadAxis)
                       /\ ~RaisedROOT => built /\ hres.kind = "hist"

\* a good dim, per-axis limits, a later axis with min > max: raised, nothing constructed
C6_Witness ==
    /\ hpc = "done" /\ RaisedROOT /\ ~built
    /\ hargs.dim = 3 /\ hargs.mins.seq /\ ~hargs.maxs.seq
    /\ AxisMin(1) <= AxisMax(1) /\ AxisMin(2) <= AxisMax(2) /\ AxisMin(3) > AxisMax(3)
    /\ Len(hlist) = 2

\* C7: when bins is not supplied, each axis gets max - min bins, or 10 if the
\* difference is less than 1.
C7_DefaultBins ==
    (hpc = "done" /\ built /\ hargs.bins = None) =>
        \A d \in 1..hargs.dim :
            hres.axes[d].bins = IF AxisMax(d) - AxisMin(d) < 1 THEN 10
                                ELSE AxisMax(d) - AxisMin(d)

\* C1: for every histogram and every n_bins > 0, rebin_nbins completes and
\* yields a histogram with exactly n_bins bins on the x axis; for n_bins = 0
\* the histogram is returned unchanged.
C1_RebinGivesNBins ==
    rebinned # None =>
        IF rebinned.n_bins = 0
        THEN rebinned.res = Hist(1, hlist)
        ELSE rebinned.res.kind = "hist" /\ rebinned.res.axes[1].bins = rebinned.n_bins

(***************************************************************************)
(* Passwords                                                               *)
(***************************************************************************)
\* C9: gen_password(length, char_set) returns exactly length characters, each
\* of char_set; with the sets of get_char_set it therefore holds none of
\* 1 l I 0 O o (all_char False) and no whitespace (all_char True).
C9_PasswordFromCharSet ==
    password # None =>
        /\ Len(password.chars) = length
        /\ \A i \in 1..Len(password.chars) :
             /\ \E k \in 1..Len(char_set) : char_set[k] = password.chars[i]
             /\ char_set = ReadableCharSet =>
                    password.chars[i] \notin {"1", "l", "I", "0", "O", "o"}
             /\ char_set = FullCharSet =>
                    password.chars[i] \notin {"\t", "\n", "VT", "\f", "\r", " "}

\* a readable password of two characters has been returned
C9_Witness ==
    /\ password # None /\ char_set = ReadableCharSet
    /\ length = 2 /\ Len(password.chars) = 2
    /\ password.chars[1] = "L" /\ password.chars[2] = "2"

====
